---------------------------- MODULE Spec2Model ----------------------------
(***************************************************************************)
(* A model of JsonRpcEngine (packages/core/src/jrpcengine.ts): the         *)
(* single-request dispatcher, its completion protocol, the return-handler  *)
(* runner, the batch coordinator and the composition adapter.              *)
(*                                                                         *)
(* Every JavaScript value is a record with a field k naming its kind, so   *)
(* that any two values can be compared.  The middleware and the return     *)
(* handlers are the engine's inputs: what one of them does when it is      *)
(* invoked is drawn from a finite set of bodies.                           *)
(***************************************************************************)
EXTENDS Integers, Sequences, FiniteSets, TLC

VARIABLES engine, items, batch

vars == <<engine, items, batch>>

---------------------------------------------------------------------------
(* Bounds of the model.                                                    *)

\* Largest middleware stack of the engine in the single-request model.
MaxStack == 4
\* Largest request array in the batch model.
MaxBatch == 2
\* Largest outer stack (adapter included) and inner stack in the nesting model.
NestOuter == 3
NestInner == 2
\* Largest stack in the model of middleware that go on after their signal.
MaxAfter == 3

---------------------------------------------------------------------------
(* Values.                                                                 *)

\* undefined: an absent property, an omitted argument, a null error.
Absent == [k |-> "absent"]

\* A conformant error object (code and message) a middleware throws or passes.
E1 == [k |-> "err", code |-> "c1", message |-> "m1"]
\* A second one, used by return handlers.
E2 == [k |-> "err", code |-> "c2", message |-> "m2"]
\* A value that is no error object: a plain string.
S1 == [k |-> "str", s |-> "oops"]

\* new SerializableError({ message }): an error object with the default code.
SerializableError(message) == [k |-> "err", code |-> "internal", message |-> message]

\* What calling a value that is no function throws.
TypeError == [k |-> "native", message |-> "handler is not a function"]

\* A result value a middleware or a return handler puts on the response.
R1 == [k |-> "val", v |-> "r1"]
R2 == [k |-> "val", v |-> "r2"]

\* JavaScript truthiness of the values of this model (if (error), err || x).
Truthy(v) == v.k # "absent"

\* serializeError with the error object passed through unchanged.
serializeErrorIdentity(v) == v

\* serializeError: the stable shape {code, message}.  A conformant error
\* object keeps its code and message, anything else is wrapped with the
\* generic code and its own text as the message.
serializeError(v) ==
    CASE v.k = "err"    -> [k |-> "ser", code |-> v.code, message |-> v.message]
      [] v.k = "ser"    -> v
      [] v.k = "native" -> [k |-> "ser", code |-> "internal", message |-> v.message]
      [] v.k = "str"    -> [k |-> "ser", code |-> "internal", message |-> v.s]
      [] OTHER          -> [k |-> "ser", code |-> "internal", message |-> v.k]

\* Array.prototype.reverse.
RECURSIVE Reverse(_)
Reverse(s) == IF s = <<>> THEN <<>> ELSE Append(Reverse(Tail(s)), Head(s))

\* The list left as it is (a runner without the reverse).
NoReverse(s) == s

\* returnHandlers.reverse() at the end of _runAllMiddleware.
reverseHandlers(s) == Reverse(s)

---------------------------------------------------------------------------
(* Requests.                                                               *)

\* The array the caller's request refers to in its params field.
CallerParams == <<"p">>

\* A request the caller passes: self is the identity of the object, shape is
\* what typeof and Array.isArray see, methodType is typeof request.method,
\* params is a reference to an array.
Request(shape, id, methodType) ==
    [self |-> "caller", shape |-> shape, id |-> id, jsonrpc |-> "2.0",
     methodType |-> methodType, method |-> "m", params |-> "callerArray"]

NoId == 0
Ids == {1, 2}

WellFormedRequests == {Request("object", id, "string") : id \in Ids}

MalformedRequests ==
    {Request(s, NoId, "undefined") : s \in {"null", "primitive", "array"}}
      \cup {Request("object", id, t) : id \in Ids, t \in {"undefined", "number"}}

Requests == WellFormedRequests \cup MalformedRequests

\* !callerReq || Array.isArray(callerReq) || typeof callerReq !== "object"
NotPlainObject(r) == r.shape # "object"

\* typeof callerReq.method !== "string"
MethodNotString(r) == r.methodType # "string"

\* A validation that lets every request through.
NoValidation(r) == Absent

\* The two guards at the head of _handle: the validation error, or Absent.
validationError(r) ==
    IF NotPlainObject(r) THEN SerializableError("request must be plain object")
    ELSE IF MethodNotString(r) THEN SerializableError("method must be string")
    ELSE Absent

\* The response of the validation branches of _handle.
validationResponse(r, error) ==
    [id |-> IF NotPlainObject(r) THEN NoId ELSE r.id, jsonrpc |-> "2.0",
     result |-> Absent, error |-> error]

\* No copy at all: the engine works on the caller's object.
noCopy(r) == r

\* { ...callerReq }: a new object (another identity) with the caller's own
\* fields; the params field of the copy still refers to the caller's array.
shallowCopy(r) == [r EXCEPT !.self = "copy"]

\* The response shell of _handle.
responseShell(req) ==
    [id |-> req.id, jsonrpc |-> req.jsonrpc, result |-> Absent, error |-> Absent]

---------------------------------------------------------------------------
(* One invocation of a middleware: the closure of _runMiddleware.          *)

\* What a middleware writes before it signals.
Writes == {"none", "result", "error", "reqAssign", "paramsPush"}

\* What a middleware passes to next: nothing, a function, or a number.
FnHandler == [k |-> "fn"]
NonCallable == [k |-> "num"]

Call(fn, arg) == [fn |-> fn, arg |-> arg]

\* How a middleware signals: next(...), end(...), a synchronous throw, or
\* never.
Calls ==
    {Call("next", a) : a \in {Absent, FnHandler, NonCallable}}
      \cup {Call("end", a) : a \in {Absent, E1, S1}}
      \cup {Call("throw", a) : a \in {E1, S1}}
      \cup {Call("hang", Absent)}

\* The bodies of the middleware of the single-request model.
Bodies == [w : Writes, c : Calls]

\* typeof returnHandler === "function"
IsFunction(h) == h.k \in {"fn", "closure"}

\* The state one middleware invocation works on: the shared request and
\* response, the caller's object and array (to see aliasing), the handler
\* list of the running stack, the promise of _runMiddleware, and the count
\* of the calls of serializeError made for the dispatch.
Closure(d, fr) ==
    [req |-> d.req, callerReq |-> d.callerReq, callerParams |-> d.callerParams,
     res |-> d.res, returnHandlers |-> fr.returnHandlers,
     resolved |-> FALSE, error |-> Absent, isComplete |-> FALSE,
     norms |-> d.norms]

\* resolve([error, isComplete]): only the first settlement of a promise counts.
resolve(c, error, isComplete) ==
    IF c.resolved THEN c
    ELSE [c EXCEPT !.resolved = TRUE, !.error = error, !.isComplete = isComplete]

\* end without the halt: the promise resolves as for next.
endNoHalt(c, err) ==
    LET error == IF Truthy(err) THEN err ELSE c.res.error
        c1 == IF Truthy(error)
              THEN [c EXCEPT !.res.error = serializeError(error)] ELSE c
    IN  resolve(c1, error, FALSE)

\* end without the normalization of the error.
endRaw(c, err) ==
    LET error == IF Truthy(err) THEN err ELSE c.res.error
        c1 == IF Truthy(error) THEN [c EXCEPT !.res.error = error] ELSE c
    IN  resolve(c1, error, TRUE)

\* The end callback of _runMiddleware.
end(c, err) ==
    LET error == IF Truthy(err) THEN err ELSE c.res.error
        c1 == IF Truthy(error)
              THEN [c EXCEPT !.res.error = serializeError(error),
                             !.norms = @ + 1]
              ELSE c
    IN  resolve(c1, error, TRUE)

\* A next that does not look at the error field of the response.
nextNoShortCircuit(c, owner, returnHandler) ==
    LET c1 == IF Truthy(returnHandler) /\ ~IsFunction(returnHandler)
              THEN end(c, SerializableError(
                       "JsonRpcEngine: 'next' return handlers must be functions"))
              ELSE c
        c2 == IF Truthy(returnHandler)
              THEN [c1 EXCEPT !.returnHandlers =
                       Append(@, [owner |-> owner, h |-> returnHandler])]
              ELSE c1
    IN  resolve(c2, Absent, FALSE)

\* The next callback of _runMiddleware; owner names the calling middleware.
next(c, owner, returnHandler) ==
    IF Truthy(c.res.error) THEN end(c, c.res.error)
    ELSE LET c1 == IF Truthy(returnHandler) /\ ~IsFunction(returnHandler)
                   THEN end(c, SerializableError(
                            "JsonRpcEngine: 'next' return handlers must be functions"))
                   ELSE c
             c2 == IF Truthy(returnHandler)
                   THEN [c1 EXCEPT !.returnHandlers =
                            Append(@, [owner |-> owner, h |-> returnHandler])]
                   ELSE c1
         IN  resolve(c2, Absent, FALSE)

\* An assignment to a field of the request the middleware received: it
\* lands in the caller's object when the two are the same object.
assignRequest(c) ==
    LET c1 == [c EXCEPT !.req.method = "changed", !.req.params = "ownArray"]
    IN  IF c.req.self = "caller"
        THEN [c1 EXCEPT !.callerReq.method = "changed",
                        !.callerReq.params = "ownArray"]
        ELSE c1

\* req.params.push(x): in place, on whatever array req.params refers to.
pushParams(c) ==
    IF c.req.params = "callerArray" /\ Len(c.callerParams) = Len(CallerParams)
    THEN [c EXCEPT !.callerParams = Append(@, "x")]
    ELSE c

\* The write of a middleware body.
applyWrite(c, w) ==
    CASE w = "result"     -> [c EXCEPT !.res.result = R1]
      [] w = "error"      -> [c EXCEPT !.res.error = E1]
      [] w = "reqAssign"  -> assignRequest(c)
      [] w = "paramsPush" -> pushParams(c)
      [] OTHER            -> c

\* A _runMiddleware without the catch taking the throw as an end: the
\* stack goes on as after next.
applyCallThrowIgnored(c, owner, call) ==
    CASE call.fn = "next"  -> next(c, owner, call.arg)
      [] call.fn = "end"   -> end(c, call.arg)
      [] call.fn = "throw" -> resolve(c, Absent, FALSE)
      [] OTHER             -> c

\* The signal of a middleware body; a throw lands in the catch of
\* _runMiddleware, which calls end with it.
applyCall(c, owner, call) ==
    CASE call.fn = "next"  -> next(c, owner, call.arg)
      [] call.fn = "end"   -> end(c, call.arg)
      [] call.fn = "throw" -> end(c, call.arg)
      [] OTHER             -> c

\* No further step: the middleware returns after its signal.
NoCall == Call("none", Absent)

\* What the middleware does after its signal and before it returns; the
\* bodies without a field t do nothing more.
Then(body) == IF "t" \in DOMAIN body THEN body.t ELSE NoCall

\* The step of a middleware after its signal: a second call of end, a
\* throw (taken by the catch of _runMiddleware), or an assignment to
\* res.error.
applyThen(c, owner, t) ==
    CASE t.fn = "end"      -> end(c, t.arg)
      [] t.fn = "throw"    -> end(c, t.arg)
      [] t.fn = "setError" -> [c EXCEPT !.res.error = t.arg]
      [] OTHER             -> c

\* _runMiddleware: the middleware runs against the closure.
runMiddleware(c, owner, body) ==
    applyThen(applyCall(applyWrite(c, body.w), owner, body.c), owner, Then(body))

---------------------------------------------------------------------------
(* Return handlers.                                                        *)

\* What a return handler writes to the response before it signals.
RhWrites == {"none", "result", "error", "delResult", "delError"}

\* How a return handler signals: its callback with or without an error, a
\* synchronous throw, or never.
RhSignals ==
    {Call("cb", Absent), Call("cb", E2), Call("throw", S1), Call("hang", Absent)}

RhBodies == [w : RhWrites, c : RhSignals]

\* The write of a return-handler body.
applyRhWrite(res, w) ==
    CASE w = "result"    -> [res EXCEPT !.result = R2]
      [] w = "error"     -> [res EXCEPT !.error = E2]
      [] w = "delResult" -> [res EXCEPT !.result = Absent]
      [] w = "delError"  -> [res EXCEPT !.error = Absent]
      [] OTHER           -> res

\* The promise _runReturnHandlers awaits for one handler:
\* handler((err) => (err ? reject(err) : resolve())), where an exception
\* of the executor rejects.  Absent error: resolved.
handlerOutcome(h, body) ==
    IF ~IsFunction(h) THEN [settled |-> TRUE, error |-> TypeError]
    ELSE CASE body.c.fn = "cb"    -> [settled |-> TRUE, error |-> body.c.arg]
           [] body.c.fn = "throw" -> [settled |-> TRUE, error |-> body.c.arg]
           [] OTHER               -> [settled |-> FALSE, error |-> Absent]

---------------------------------------------------------------------------
(* One dispatch: the locals of _handle, _processRequest,                   *)
(* _runAllMiddleware and _runReturnHandlers, and what an observer records. *)

\* The locals of one _runAllMiddleware call; idx counts the middleware the
\* for loop has taken.
NewFrame == [idx |-> 0, returnHandlers |-> <<>>, error |-> Absent,
             isComplete |-> FALSE]

NoResponse == [id |-> NoId, jsonrpc |-> "2.0", result |-> Absent, error |-> Absent]

InitDispatch(r) ==
    [pc |-> "start",
     callerReq |-> r, callerParams |-> CallerParams, orig |-> r,
     req |-> r, res |-> NoResponse,
     depth |-> 0, out |-> NewFrame, inn |-> NewFrame,
     merr |-> Absent, rhq |-> <<>>, subq |-> <<>>, inClosure |-> FALSE,
     thrown |-> Absent, cbErr |-> Absent, cbCalls |-> 0,
     invoked |-> <<>>, log |-> <<>>, ran |-> <<>>, failed |-> <<>>,
     rhWroteError |-> FALSE, norms |-> 0, via |-> "none"]

\* The frame of the running stack: the engine's own, or the inner engine's
\* while the adapter runs it.
Cur(d) == IF d.depth = 0 THEN d.out ELSE d.inn
SetCur(d, fr) == IF d.depth = 0 THEN [d EXCEPT !.out = fr] ELSE [d EXCEPT !.inn = fr]
CurEngine(d) == IF d.depth = 0 THEN "outer" ELSE "inner"
StackSize(d) == IF d.depth = 0 THEN engine.n ELSE engine.nInner
IsAdapter(d, pos) == d.depth = 0 /\ engine.adapterAt = pos

\* The engine of the batch model has two middleware that read req.method:
\* what the middleware at position pos does for a request of that method.
BatchMethods == {"ok", "fail", "throw", "bare", "pass", "undo"}

Body(w, c) == [w |-> w, c |-> c]

BatchProgram(pos, method) ==
    IF pos = 1
    THEN CASE method = "throw" -> Body("result", Call("throw", S1))
           [] method = "bare"  -> Body("none", Call("end", Absent))
           [] method = "pass"  -> Body("none", Call("next", Absent))
           [] OTHER            -> Body("paramsPush", Call("next", FnHandler))
    ELSE CASE method = "fail"  -> Body("none", Call("end", E1))
           [] method = "pass"  -> Body("result", Call("next", Absent))
           [] OTHER            -> Body("result", Call("end", Absent))

\* What the return handler of the first middleware does, by req.method.
BatchRhProgram(method) ==
    IF method = "undo" THEN Body("delResult", Call("cb", E2))
    ELSE Body("none", Call("cb", Absent))

\* The middleware of the nesting model.
NestBodies ==
    [w : {"none", "result", "error"},
     c : {Call("next", Absent), Call("next", FnHandler), Call("end", Absent),
          Call("end", E1), Call("throw", S1)}]

\* The middleware of the model in which a middleware goes on after its
\* signal; nothing of a body runs after its throw or while it waits.
AfterBodies ==
    {b \in [w : {"none", "result"},
            c : {Call("next", Absent), Call("next", FnHandler),
                 Call("next", NonCallable), Call("end", Absent),
                 Call("end", E1), Call("throw", S1)},
            t : {NoCall, Call("end", E1), Call("throw", S1),
                 Call("setError", E1)}] :
        b.c.fn = "throw" => b.t = NoCall}

\* The bodies the middleware the loop has reached may have.
BodiesAt(d) ==
    CASE engine.kind = "batch" -> {BatchProgram(Cur(d).idx + 1, d.req.method)}
      [] engine.kind = "nest"  -> NestBodies
      [] engine.kind = "after" -> AfterBodies
      [] OTHER                 -> Bodies

\* The return handlers of the nesting model.
NestRhBodies ==
    [w : {"none", "error"}, c : {Call("cb", Absent), Call("cb", E2)}]

\* The bodies the return handler the runner has reached may have.
RhBodiesAt(d) ==
    CASE engine.kind = "batch" -> {BatchRhProgram(d.req.method)}
      [] engine.kind = "nest"  -> NestRhBodies
      [] engine.kind = "after" -> NestRhBodies
      [] OTHER                 -> RhBodies

\* _handle with the validation branches falling through to the dispatch.
handleStartFallThrough(d) ==
    LET req == shallowCopy(d.callerReq)
        error == validationError(d.callerReq)
    IN  [d EXCEPT !.req = req, !.res = responseShell(req), !.out = NewFrame,
                  !.cbErr = error,
                  !.cbCalls = IF Truthy(error) THEN @ + 1 ELSE @,
                  !.pc = "loop"]

\* _handle up to the call of _processRequest: the validation branches call
\* the callback at once; otherwise the working copy and the response shell.
handleStart(d) ==
    LET error == validationError(d.callerReq)
    IN  IF Truthy(error)
        THEN [d EXCEPT !.res = validationResponse(d.callerReq, error),
                       !.cbErr = error, !.cbCalls = @ + 1, !.pc = "done"]
        ELSE LET req == shallowCopy(d.callerReq)
             IN  [d EXCEPT !.req = req, !.res = responseShell(req),
                           !.out = NewFrame, !.pc = "loop"]

\* One turn of the for loop of _runAllMiddleware: the middleware at the next
\* position runs, and the loop takes [error, isComplete] from its promise.
\* A middleware that never signals leaves the dispatch waiting.
invoke(d, body) ==
    LET fr    == Cur(d)
        owner == <<CurEngine(d), fr.idx + 1>>
        c0    == Closure(d, fr)
        c     == runMiddleware(c0, owner, body)
        fr1   == [fr EXCEPT !.idx = @ + 1,
                            !.returnHandlers = c.returnHandlers,
                            !.error = IF c.resolved THEN c.error ELSE @,
                            !.isComplete = c.resolved /\ c.isComplete]
        d1    == [d EXCEPT !.req = c.req, !.callerReq = c.callerReq,
                           !.callerParams = c.callerParams, !.res = c.res,
                           !.norms = c.norms,
                           !.invoked = Append(@, owner),
                           !.log = Append(@, [mw |-> owner, fn |-> body.c.fn,
                                              arg |-> body.c.arg,
                                              res |-> applyWrite(c0, body.w).res,
                                              then |-> Then(body)]),
                           !.pc = IF c.resolved THEN "loop" ELSE "hung"]
    IN  SetCur(d1, fr1)

\* A loop that does not wait for the promise of the middleware it called.
LoopGoesOnNoAwait(d) ==
    /\ d.pc \in {"loop", "hung"}
    /\ Cur(d).idx < StackSize(d)
    /\ ~Cur(d).isComplete

\* The for loop of _runAllMiddleware goes on: more middleware, no break.
LoopGoesOn(d) ==
    /\ d.pc = "loop"
    /\ Cur(d).idx < StackSize(d)
    /\ ~Cur(d).isComplete

\* The loop is over: the stack is exhausted or isComplete broke it.
LoopOver(d) ==
    /\ d.pc = "loop"
    /\ (Cur(d).idx >= StackSize(d) \/ Cur(d).isComplete)

\* _runAllMiddleware returns [error, isComplete, returnHandlers.reverse()]
\* to _processRequest.
loopExit(d) ==
    [d EXCEPT !.merr = d.out.error,
              !.rhq = reverseHandlers(d.out.returnHandlers),
              !.pc = "check"]

\* A completion check that looks only at the isComplete flag.
checkOnlyFlag(res, isComplete) ==
    IF ~isComplete THEN SerializableError("Nothing ended request") ELSE Absent

\* A completion check that looks only at the fields of the response.
checkOnlyFields(res, isComplete) ==
    IF ~Truthy(res.result) /\ ~Truthy(res.error)
    THEN SerializableError("Response has no error or result for request")
    ELSE Absent

\* _checkForCompletion: the error it throws, or Absent.
checkForCompletion(res, isComplete) ==
    IF ~Truthy(res.result) /\ ~Truthy(res.error)
    THEN SerializableError("Response has no error or result for request")
    ELSE IF ~isComplete THEN SerializableError("Nothing ended request")
    ELSE Absent

\* A _processRequest that does not run the return handlers.
processCheckSkipHandlers(d) ==
    LET e == checkForCompletion(d.res, d.out.isComplete)
    IN  IF Truthy(e) THEN [d EXCEPT !.thrown = e, !.via = "check", !.pc = "finish"]
        ELSE [d EXCEPT !.thrown = d.merr, !.via = "return", !.pc = "finish"]

\* _processRequest after _runAllMiddleware: the completion check throws
\* into the catch of _handle, or the return handlers are next.
processCheck(d) ==
    LET e == checkForCompletion(d.res, d.out.isComplete)
    IN  IF Truthy(e) THEN [d EXCEPT !.thrown = e, !.via = "check", !.pc = "finish"]
        ELSE [d EXCEPT !.pc = "rh"]

\* The queue the running _runReturnHandlers call works on.
ActiveQueue(d) == IF d.inClosure THEN d.subq ELSE d.rhq

\* One turn of the for loop of _runReturnHandlers: the handler runs and the
\* loop awaits its promise.  A rejection leaves the loop: inside the
\* adapter's forwarded handler it is passed to handlerCallback, which
\* rejects the promise of the enclosing runner.
runReturnHandler(d, body) ==
    LET q   == ActiveQueue(d)
        h   == Head(q)
        o   == handlerOutcome(h.h, body)
        res == IF IsFunction(h.h) THEN applyRhWrite(d.res, body.w) ELSE d.res
        d1  == [d EXCEPT !.res = res, !.ran = Append(@, h.owner),
                         !.rhWroteError = @ \/ res.error # d.res.error]
    IN  IF ~o.settled THEN [d1 EXCEPT !.pc = "hung"]
        ELSE IF ~Truthy(o.error)
             THEN IF d.inClosure THEN [d1 EXCEPT !.subq = Tail(q)]
                  ELSE [d1 EXCEPT !.rhq = Tail(q)]
        ELSE IF d.depth = 0
             THEN [d1 EXCEPT !.thrown = o.error, !.inClosure = FALSE,
                             !.failed = Append(@, h.owner),
                             !.via = "handler", !.pc = "finish"]
             ELSE [d1 EXCEPT !.thrown = o.error, !.failed = Append(@, h.owner),
                             !.pc = "adapterCatch"]

\* _processRequest after _runReturnHandlers: the middleware error, if any,
\* is thrown again into the catch of _handle.
processReturn(d) == [d EXCEPT !.thrown = d.merr, !.via = "return", !.pc = "finish"]

\* _handle without its try and catch: what _processRequest throws rejects
\* the promise of _handle and the callback is never called.
finishNoCatch(d) ==
    IF Truthy(d.thrown) THEN [d EXCEPT !.pc = "rejected"]
    ELSE [d EXCEPT !.cbErr = Absent, !.cbCalls = @ + 1, !.pc = "done"]

\* _handle after the try: an errored response loses its result and gets the
\* normalized error unless it has one; then the callback.
finish(d) ==
    LET error == d.thrown
        res   == IF Truthy(error)
                 THEN [d.res EXCEPT !.result = Absent,
                                    !.error = IF Truthy(@) THEN @
                                              ELSE serializeError(error)]
                 ELSE d.res
    IN  [d EXCEPT !.res = res, !.cbErr = error, !.cbCalls = @ + 1,
                  !.norms = IF Truthy(error) /\ ~Truthy(d.res.error)
                            THEN @ + 1 ELSE @,
                  !.pc = "done"]

---------------------------------------------------------------------------
(* The actions of one dispatch; i names the dispatch.                      *)

Step(i, d) ==
    /\ items' = [items EXCEPT ![i] = d]
    /\ UNCHANGED <<engine, batch>>

\* handle(request, callback) -> _handle(callerReq, cb); in a batch, the
\* next call reqs.map makes, in the order of the array.
Handle(i) ==
    /\ items[i].pc = "start"
    /\ \A j \in DOMAIN items : j < i => items[j].pc # "start"
    /\ Step(i, handleStart(items[i]))

\* _runMiddleware for the middleware the loop has reached.
RunMiddleware(i) ==
    /\ LoopGoesOn(items[i])
    /\ ~IsAdapter(items[i], Cur(items[i]).idx + 1)
    /\ \E body \in BodiesAt(items[i]) : Step(i, invoke(items[i], body))

\* The return of _runAllMiddleware to _processRequest.
LoopExit(i) ==
    /\ LoopOver(items[i])
    /\ items[i].depth = 0
    /\ Step(i, loopExit(items[i]))

\* _checkForCompletion in _processRequest.
CheckForCompletion(i) ==
    /\ items[i].pc = "check"
    /\ Step(i, processCheck(items[i]))

\* _runReturnHandlers takes the next handler of its list.
RunReturnHandler(i) ==
    /\ items[i].pc = "rh"
    /\ ActiveQueue(items[i]) # <<>>
    /\ Head(ActiveQueue(items[i])).h.k # "closure"
    /\ \E body \in RhBodiesAt(items[i]) : Step(i, runReturnHandler(items[i], body))

\* _runReturnHandlers of _processRequest is through its list.
ReturnHandlersDone(i) ==
    /\ items[i].pc = "rh"
    /\ items[i].depth = 0
    /\ ~items[i].inClosure
    /\ items[i].rhq = <<>>
    /\ Step(i, processReturn(items[i]))

\* The end of _handle: the callback gets the error and the response.
Finish(i) ==
    /\ items[i].pc = "finish"
    /\ Step(i, finish(items[i]))

---------------------------------------------------------------------------
(* The single-request model: one engine, one call of handle with a         *)
(* callback.                                                               *)

NoBatch == [pc |-> "none", slots |-> <<>>, order |-> <<>>, responses |-> <<>>,
            cbErr |-> Absent, cbCalls |-> 0]

Init ==
    /\ engine \in [kind : {"single"}, n : 0..MaxStack, adapterAt : {0},
                   nInner : {0}]
    /\ items \in [{1} -> {InitDispatch(r) : r \in Requests}]
    /\ batch = NoBatch

Next ==
    \/ Handle(1)
    \/ RunMiddleware(1)
    \/ LoopExit(1)
    \/ CheckForCompletion(1)
    \/ RunReturnHandler(1)
    \/ ReturnHandlersDone(1)
    \/ Finish(1)

Spec == Init /\ [][Next]_vars

\* The same engine with middleware that go on after their signal.
InitAfter ==
    /\ engine \in [kind : {"after"}, n : 0..MaxAfter, adapterAt : {0},
                   nInner : {0}]
    /\ items \in [{1} -> {InitDispatch(r) : r \in Requests}]
    /\ batch = NoBatch

SpecAfter == InitAfter /\ [][Next]_vars

\* The engine's promise continuations are always run: no step that can be
\* taken is put off for ever.
FairSpec == Spec /\ WF_vars(Next)


---------------------------------------------------------------------------
(* The batch model: handle(requests, callback) -> _handleBatch.            *)

Pending == [state |-> "pending", value |-> Absent]

\* A _promiseHandle whose promise rejects with the error of the dispatch.
promiseHandleRejecting(d) ==
    IF Truthy(d.cbErr) THEN [state |-> "rejected", value |-> d.cbErr]
    ELSE [state |-> "fulfilled", value |-> d.res]

\* _promiseHandle: the callback it gives _handle resolves with the response
\* and drops the error.
promiseHandle(d) == [state |-> "fulfilled", value |-> d.res]

\* A Promise.all that lists the values as they arrive.
promiseAllByArrival(slots, order) ==
    IF \E i \in DOMAIN slots : slots[i].state = "rejected"
    THEN [state |-> "rejected",
          value |-> slots[order[CHOOSE k \in DOMAIN order :
                        /\ slots[order[k]].state = "rejected"
                        /\ \A l \in 1..(k - 1) : slots[order[l]].state # "rejected"]].value]
    ELSE IF \A i \in DOMAIN slots : slots[i].state = "fulfilled"
    THEN [state |-> "fulfilled",
          value |-> [k \in DOMAIN slots |-> slots[order[k]].value]]
    ELSE Pending

\* Promise.all: rejected with the first rejection, else fulfilled, once all
\* are, with the values in the order of the promises.
promiseAll(slots, order) ==
    IF \E i \in DOMAIN slots : slots[i].state = "rejected"
    THEN [state |-> "rejected",
          value |-> slots[order[CHOOSE k \in DOMAIN order :
                        /\ slots[order[k]].state = "rejected"
                        /\ \A l \in 1..(k - 1) : slots[order[l]].state # "rejected"]].value]
    ELSE IF \A i \in DOMAIN slots : slots[i].state = "fulfilled"
    THEN [state |-> "fulfilled", value |-> [k \in DOMAIN slots |-> slots[k].value]]
    ELSE Pending

\* _handleBatch after the await: cb(null, responses), or cb(error) from the
\* catch.
handleBatchReturn(b, p) ==
    IF p.state = "fulfilled"
    THEN [b EXCEPT !.responses = p.value, !.cbErr = Absent, !.cbCalls = @ + 1,
                   !.pc = "done"]
    ELSE [b EXCEPT !.cbErr = p.value, !.cbCalls = @ + 1, !.pc = "done"]

\* The callback of _promiseHandle settles the promise of item i.
PromiseHandle(i) ==
    /\ batch.pc = "waiting"
    /\ items[i].pc = "done"
    /\ batch.slots[i].state = "pending"
    /\ batch' = [batch EXCEPT !.slots[i] = promiseHandle(items[i]),
                              !.order = Append(@, i)]
    /\ UNCHANGED <<engine, items>>

\* The await of _handleBatch is over.
HandleBatchReturn ==
    /\ batch.pc = "waiting"
    /\ promiseAll(batch.slots, batch.order).state # "pending"
    /\ batch' = handleBatchReturn(batch, promiseAll(batch.slots, batch.order))
    /\ UNCHANGED <<engine, items>>

\* The requests of the batch model: a method the middleware know, or a
\* malformed item.
BatchRequests ==
    {[Request("object", id, "string") EXCEPT !.method = m] :
        id \in Ids, m \in BatchMethods}
      \cup {Request("array", NoId, "undefined"), Request("object", 1, "number")}

\* handle(requests, callback) has been called: reqs.map is about to start
\* one _promiseHandle per request.
InitBatch ==
    /\ engine = [kind |-> "batch", n |-> 2, adapterAt |-> 0, nInner |-> 0]
    /\ \E n \in 0..MaxBatch :
          /\ items \in [1..n -> {InitDispatch(r) : r \in BatchRequests}]
          /\ batch = [NoBatch EXCEPT !.pc = "waiting",
                                     !.slots = [i \in 1..n |-> Pending]]

\* A step of the dispatch of item i.
ItemStep(i) ==
    \/ Handle(i)
    \/ RunMiddleware(i)
    \/ LoopExit(i)
    \/ CheckForCompletion(i)
    \/ RunReturnHandler(i)
    \/ ReturnHandlersDone(i)
    \/ Finish(i)

NextBatch ==
    \/ \E i \in DOMAIN items : Handle(i)
    \/ \E i \in DOMAIN items : RunMiddleware(i)
    \/ \E i \in DOMAIN items : LoopExit(i)
    \/ \E i \in DOMAIN items : CheckForCompletion(i)
    \/ \E i \in DOMAIN items : RunReturnHandler(i)
    \/ \E i \in DOMAIN items : ReturnHandlersDone(i)
    \/ \E i \in DOMAIN items : Finish(i)
    \/ \E i \in DOMAIN items : PromiseHandle(i)
    \/ HandleBatchReturn

SpecBatch == InitBatch /\ [][NextBatch]_vars


---------------------------------------------------------------------------
(* The nesting model: an engine whose stack holds, at one position, the    *)
(* middleware asMiddleware returns for an inner engine.                    *)

\* The outer _runMiddleware calls the adapter, which calls
\* _runAllMiddleware on the shared request and response with the inner
\* engine's stack.
adapterEnter(d) ==
    [d EXCEPT !.out.idx = @ + 1, !.inn = NewFrame, !.depth = 1,
              !.invoked = Append(@, <<"outer", d.out.idx + 1>>)]

\* The adapter calls the outer next or end: the promise of the outer
\* _runMiddleware settles and the outer loop goes on from it.
settleOuter(d, c, fn, arg) ==
    [d EXCEPT !.res = c.res,
              !.norms = c.norms,
              !.out.returnHandlers = c.returnHandlers,
              !.out.error = c.error,
              !.out.isComplete = c.isComplete,
              !.depth = 0,
              !.thrown = Absent,
              !.log = Append(@, [mw |-> <<"outer", d.out.idx>>, fn |-> fn,
                                 arg |-> arg, res |-> d.res, then |-> NoCall]),
              !.pc = "loop"]

\* The handler the adapter forwards to the outer next: it runs the inner
\* engine's return handlers and then calls handlerCallback.
ForwardedHandler(handlers) == [k |-> "closure", hs |-> handlers]

\* An adapter that forwards the inner handlers in registration order.
adapterNextUnreversed(d) ==
    LET hs == d.inn.returnHandlers
        c  == next(Closure(d, d.out), <<"outer", d.out.idx>>, ForwardedHandler(hs))
    IN  settleOuter(d, c, "next", ForwardedHandler(hs))

\* The adapter calling the outer next with the forwarded handler.
adapterNext(d) ==
    LET hs == reverseHandlers(d.inn.returnHandlers)
        c  == next(Closure(d, d.out), <<"outer", d.out.idx>>, ForwardedHandler(hs))
    IN  settleOuter(d, c, "next", ForwardedHandler(hs))

\* An adapter that passes to the outer next whatever the inner stack did.
adapterAfterStackAlwaysNext(d) == adapterNext(d)

\* The adapter after its _runAllMiddleware: a completed request has the
\* inner return handlers run before the outer end; otherwise the outer next.
adapterAfterStack(d) ==
    IF d.inn.isComplete
    THEN [d EXCEPT !.rhq = reverseHandlers(d.inn.returnHandlers), !.pc = "rh"]
    ELSE adapterNext(d)

\* An adapter that calls the outer end without the error it has.
adapterEndDropsError(d) ==
    settleOuter(d, end(Closure(d, d.out), Absent), "end", Absent)

\* An adapter that answers the end of the inner run with the outer next.
adapterEndCallsNext(d) == adapterNext(d)

\* The adapter calling the outer end: with the inner middleware error after
\* the inner return handlers, or from its catch with what one of them threw.
adapterEnd(d) ==
    LET arg == IF d.pc = "adapterCatch" THEN d.thrown ELSE d.inn.error
        c   == end(Closure(d, d.out), arg)
    IN  settleOuter(d, c, "end", arg)

\* The outer runner calls the forwarded handler.
enterClosure(d) ==
    [d EXCEPT !.inClosure = TRUE, !.subq = Head(d.rhq).h.hs,
              !.ran = Append(@, Head(d.rhq).owner)]

\* The forwarded handler is through the inner handlers: handlerCallback().
exitClosure(d) == [d EXCEPT !.inClosure = FALSE, !.rhq = Tail(@)]

AdapterEnter(i) ==
    /\ LoopGoesOn(items[i])
    /\ IsAdapter(items[i], Cur(items[i]).idx + 1)
    /\ Step(i, adapterEnter(items[i]))

AdapterAfterStack(i) ==
    /\ LoopOver(items[i])
    /\ items[i].depth = 1
    /\ Step(i, adapterAfterStack(items[i]))

AdapterEnd(i) ==
    /\ items[i].depth = 1
    /\ \/ items[i].pc = "adapterCatch"
       \/ items[i].pc = "rh" /\ items[i].rhq = <<>>
    /\ Step(i, adapterEnd(items[i]))

EnterClosure(i) ==
    /\ items[i].pc = "rh"
    /\ ~items[i].inClosure
    /\ items[i].rhq # <<>>
    /\ Head(items[i].rhq).h.k = "closure"
    /\ Step(i, enterClosure(items[i]))

ExitClosure(i) ==
    /\ items[i].pc = "rh"
    /\ items[i].inClosure
    /\ items[i].subq = <<>>
    /\ Step(i, exitClosure(items[i]))

InitNest ==
    /\ \E n \in 1..NestOuter :
          engine \in [kind : {"nest"}, n : {n}, adapterAt : 1..n,
                      nInner : 0..NestInner]
    /\ items \in [{1} -> {InitDispatch(r) : r \in Requests}]
    /\ batch = NoBatch

NextNest ==
    \/ Handle(1)
    \/ RunMiddleware(1)
    \/ AdapterEnter(1)
    \/ AdapterAfterStack(1)
    \/ AdapterEnd(1)
    \/ LoopExit(1)
    \/ CheckForCompletion(1)
    \/ RunReturnHandler(1)
    \/ EnterClosure(1)
    \/ ExitClosure(1)
    \/ ReturnHandlersDone(1)
    \/ Finish(1)

SpecNest == InitNest /\ [][NextNest]_vars

\* The continuations of the adapter and of both engines are always run.
FairSpecNest == SpecNest /\ WF_vars(NextNest)

---------------------------------------------------------------------------
(* Claims about the single-request dispatcher.                             *)

WellFormed(d) == d.orig \in WellFormedRequests
Done(d) == d.pc = "done"
HasResult(res) == Truthy(res.result)
HasError(res) == Truthy(res.error)

\* C1: for every well-formed request the delivered response carries exactly
\* one of result and error, whatever middleware and return handlers did.
C1_ExactlyOneOfResultError ==
    \A i \in DOMAIN items :
        (Done(items[i]) /\ WellFormed(items[i]))
            => (HasResult(items[i].res) # HasError(items[i].res))

\* C2: a malformed request invokes no middleware and no return handler, and
\* its delivered response carries the validation error and no result.
C2_MalformedRejected ==
    \A i \in DOMAIN items :
        ~WellFormed(items[i]) =>
            /\ items[i].invoked = <<>>
            /\ items[i].ran = <<>>
            /\ items[i].pc \in {"start", "done"}
            /\ Done(items[i]) =>
                 /\ items[i].res.error = validationError(items[i].orig)
                 /\ HasError(items[i].res)
                 /\ ~HasResult(items[i].res)
                 /\ items[i].cbErr = items[i].res.error

C2_Witness ==
    \E i \in DOMAIN items :
        /\ Done(items[i])
        /\ ~WellFormed(items[i])
        /\ engine.n > 0

\* The stack ran as C3 says: the middleware before position j called next
\* and the middleware at j called end with an error.
EndedWithErrorAt(d, j) ==
    /\ j \in 1..Len(d.log)
    /\ \A k \in 1..(j - 1) : d.log[k].fn = "next"
    /\ d.log[j].fn = "end"
    /\ Truthy(d.log[j].arg)

\* C3: when the middleware before j call next and middleware j calls end
\* with an error, no later middleware is ever invoked and the delivered
\* error is the normalized form of that error (no return handler having
\* replaced the error field afterwards).
C3_EndWithErrorHalts ==
    \A i \in DOMAIN items : \A j \in 1..MaxStack + 1 :
        EndedWithErrorAt(items[i], j) =>
            /\ Len(items[i].invoked) = j
            /\ (Done(items[i]) /\ ~items[i].rhWroteError)
                 => items[i].res.error = serializeError(items[i].log[j].arg)

C3_Witness ==
    \E i \in DOMAIN items :
        /\ Done(items[i])
        /\ EndedWithErrorAt(items[i], 2)
        /\ items[i].log[2].arg = S1
        /\ engine.n > 2
        /\ items[i].ran # <<>>
        /\ ~items[i].rhWroteError

\* The owners of the handlers in the order next registered them.
Registered(d) == [k \in 1..Len(d.out.returnHandlers) |-> d.out.returnHandlers[k].owner]

\* C4: return handlers run in the reverse of the order in which their
\* middleware ran, one after the other, and only once the stack has halted;
\* when none fails, all of them run.
C4_HandlersReverseOrder ==
    \A i \in DOMAIN items :
        LET d   == items[i]
            reg == Registered(d)
        IN  /\ Len(d.ran) <= Len(reg)
            /\ \A k \in 1..Len(d.ran) : d.ran[k] = reg[Len(reg) + 1 - k]
            /\ \A k, l \in 1..Len(d.ran) : k < l => d.ran[k][2] > d.ran[l][2]
            /\ d.ran # <<>> => d.pc \in {"rh", "finish", "done", "hung"}
            /\ d.via = "return" => d.ran = Reverse(reg)

C4_Witness ==
    \E i \in DOMAIN items :
        /\ Done(items[i])
        /\ items[i].ran = << <<"outer", 3>>, <<"outer", 2>>, <<"outer", 1>> >>

\* The last middleware called end with no error on a response that had
\* neither a result nor an error.
EndedBare(d) ==
    /\ d.log # <<>>
    /\ d.log[Len(d.log)].fn = "end"
    /\ ~Truthy(d.log[Len(d.log)].arg)
    /\ ~HasResult(d.log[Len(d.log)].res)
    /\ ~HasError(d.log[Len(d.log)].res)

\* C5: end with no error on a response with neither result nor error makes
\* the dispatch deliver the protocol-violation error, to the callback too.
C5_BareEndIsProtocolViolation ==
    \A i \in DOMAIN items :
        (Done(items[i]) /\ EndedBare(items[i])) =>
            /\ items[i].cbErr =
                 SerializableError("Response has no error or result for request")
            /\ items[i].res.error = serializeError(items[i].cbErr)
            /\ ~HasResult(items[i].res)

C5_Witness ==
    \E i \in DOMAIN items :
        /\ Done(items[i])
        /\ EndedBare(items[i])
        /\ Len(items[i].log) = 2
        /\ items[i].out.returnHandlers # <<>>

Hung(d) == d.pc = "hung"

\* C10: for one request in callback style, no exception escapes the
\* dispatch and the callback is invoked exactly once, as soon as every
\* invoked middleware and return handler has signalled.
C10_CallbackExactlyOnce ==
    /\ [](\A i \in DOMAIN items :
            /\ items[i].pc # "rejected"
            /\ items[i].cbCalls = IF Done(items[i]) THEN 1 ELSE 0)
    /\ <>(\A i \in DOMAIN items : Done(items[i]) \/ Hung(items[i]))

C10_Witness ==
    \E i \in DOMAIN items :
        /\ Done(items[i])
        /\ items[i].cbCalls = 1
        /\ items[i].via = "handler"
        /\ Len(items[i].invoked) = 2

---------------------------------------------------------------------------
(* Claims about the batch coordinator.                                     *)

\* The dispatch of one request on its own, run to its end: the middleware
\* of the batch model are functions of the request, so the run is too.
RECURSIVE RunAlone(_)
RunAlone(d) ==
    CASE d.pc = "start"  -> RunAlone(handleStart(d))
      [] LoopGoesOn(d)   -> RunAlone(invoke(d, BatchProgram(Cur(d).idx + 1, d.req.method)))
      [] LoopOver(d)     -> RunAlone(loopExit(d))
      [] d.pc = "check"  -> RunAlone(processCheck(d))
      [] d.pc = "rh" /\ d.rhq # <<>>
                         -> RunAlone(runReturnHandler(d, BatchRhProgram(d.req.method)))
      [] d.pc = "rh" /\ d.rhq = <<>>
                         -> RunAlone(processReturn(d))
      [] d.pc = "finish" -> RunAlone(finish(d))
      [] OTHER           -> d

Alone(r) == RunAlone(InitDispatch(r))

\* The dispatch of item i failed: its callback got an error.
Failed(d) == Done(d) /\ Truthy(d.cbErr)

\* C6: the batch returns one response per request, the response at
\* position i being the one the dispatch of request i delivered, whatever
\* the order in which the items completed and however many failed.
C6_BatchKeepsPositions ==
    batch.pc = "done" =>
        /\ Len(batch.responses) = Len(items)
        /\ \A i \in DOMAIN items :
              /\ Done(items[i])
              /\ batch.responses[i] = items[i].res
              /\ batch.responses[i].id =
                    IF NotPlainObject(items[i].orig) THEN NoId ELSE items[i].orig.id

C6_Witness ==
    /\ batch.pc = "done"
    /\ Len(items) = MaxBatch
    /\ batch.order[1] = MaxBatch
    /\ Failed(items[1])
    /\ HasResult(items[MaxBatch].res)
    /\ batch.responses[1] # batch.responses[MaxBatch]

\* C7: a failing item neither aborts nor holds up the others: each started
\* item can always take its next step, the batch ends with no batch-level
\* error, and every item has then run the middleware it runs on its own and
\* has the response it gets on its own.
C7_BatchItemsIsolated ==
    /\ batch.cbErr = Absent
    /\ batch.cbCalls = IF batch.pc = "done" THEN 1 ELSE 0
    /\ \A i \in DOMAIN items :
          items[i].pc \notin {"start", "done"} => ENABLED ItemStep(i)
    /\ batch.pc = "done" =>
          \A i \in DOMAIN items :
              /\ batch.responses[i] = Alone(items[i].orig).res
              /\ items[i].invoked = Alone(items[i].orig).invoked
              /\ items[i].ran = Alone(items[i].orig).ran

C7_Witness ==
    /\ batch.pc = "done"
    /\ Len(items) = MaxBatch
    /\ Failed(items[batch.order[1]])
    /\ items[batch.order[1]].orig.method \in {"throw", "undo"}
    /\ \E i \in DOMAIN items :
          /\ ~Failed(items[i])
          /\ Len(items[i].invoked) = 2
          /\ items[i].ran # <<>>
          /\ batch.responses[i].result = R1

---------------------------------------------------------------------------
(* Claims about nested engines.                                            *)

\* The only middleware of the inner engine set the fixed result R1 on a
\* response without an error and called end with no error.
InnerSetResultAndEnded(d) ==
    \E k \in DOMAIN d.log :
        /\ d.log[k].mw = <<"inner", 1>>
        /\ d.log[k].fn = "end"
        /\ ~Truthy(d.log[k].arg)
        /\ d.log[k].res.result = R1
        /\ ~HasError(d.log[k].res)

\* C8: an outer engine whose only middleware is the adapter of an inner
\* engine whose only middleware sets a fixed result and ends delivers, for
\* every well-formed request, that result and no error.
C8_NestedResultDelivered ==
    \A i \in DOMAIN items :
        ( /\ Done(items[i])
          /\ WellFormed(items[i])
          /\ engine.n = 1 /\ engine.adapterAt = 1 /\ engine.nInner = 1
          /\ InnerSetResultAndEnded(items[i]) )
        => /\ items[i].res.result = R1
           /\ ~HasError(items[i].res)
           /\ ~Truthy(items[i].cbErr)
           /\ items[i].res.id = items[i].orig.id

C8_Witness ==
    \E i \in DOMAIN items :
        /\ Done(items[i])
        /\ items[i].orig.id = 2
        /\ engine.n = 1 /\ engine.adapterAt = 1 /\ engine.nInner = 1
        /\ InnerSetResultAndEnded(items[i])
        /\ items[i].res.result = R1

---------------------------------------------------------------------------
(* Claims about the halting of the stack and the return-handler runner.    *)

\* Every handler the dispatch collected is a function.
AllCallable(d) ==
    \A k \in DOMAIN d.out.returnHandlers : IsFunction(d.out.returnHandlers[k].h)

\* C11: however the stack halted, every return handler collected during
\* the dispatch has run by the time the response is delivered (unless one
\* of the handlers failed and so cut the runner short).
C11_CollectedHandlersAllRun ==
    \A i \in DOMAIN items :
        ( /\ Done(items[i]) /\ WellFormed(items[i])
          /\ AllCallable(items[i])
          /\ items[i].via # "handler" )
        => items[i].ran = Reverse(Registered(items[i]))

\* The runner of the dispatch was cut short by a failing handler.
HandlerFailed(d) == Done(d) /\ d.via = "handler"

\* C12: when a return handler fails, the handlers after it (the tail of the
\* runner's list) are not run, the delivered error is the normalized error
\* of that handler, whatever the stack had put on the response, and the
\* response carries no result.
C12_HandlerErrorOverrides ==
    \A i \in DOMAIN items :
        ( /\ HandlerFailed(items[i])
          /\ AllCallable(items[i])
          /\ ~items[i].rhWroteError ) =>
            /\ Len(items[i].ran) + Len(Tail(items[i].rhq)) = Len(Registered(items[i]))
            /\ items[i].res.error = serializeError(items[i].cbErr)
            /\ ~HasResult(items[i].res)

---------------------------------------------------------------------------
(* Claims about the composition adapter.                                   *)

\* The calls the adapter made to the next and end of the outer engine.
AdapterCalls(d) ==
    SelectSeq(d.log, LAMBDA e : e.mw = <<"outer", engine.adapterAt>>)

\* The adapter is running: the outer engine waits for its next or end.
InAdapter(d) == d.depth = 1

\* The adapter has been invoked and the outer loop has gone on from it.
AdapterSettled(d) ==
    /\ d.depth = 0
    /\ <<"outer", engine.adapterAt>> \in {d.invoked[k] : k \in DOMAIN d.invoked}

\* C13: the adapter calls one of outer-next and outer-end, once: none while
\* it runs, exactly one call from then on, outer-end when the inner stack
\* completed the request or an inner return handler failed and outer-next
\* otherwise; and once invoked it always gets to that call.
C13_AdapterIsWellFormedMiddleware ==
    /\ [](\A i \in DOMAIN items :
            LET d == items[i]
                calls == AdapterCalls(d)
            IN  /\ Len(calls) <= 1
                /\ InAdapter(d) => calls = <<>>
                /\ AdapterSettled(d) =>
                      /\ Len(calls) = 1
                      /\ calls[1].fn \in {"next", "end"}
                      /\ calls[1].fn = "end" <=> d.inn.isComplete)
    /\ \A i \in {1} : InAdapter(items[i]) ~> AdapterSettled(items[i])

C13_Witness ==
    \E i \in DOMAIN items :
        /\ Done(items[i])
        /\ AdapterSettled(items[i])
        /\ AdapterCalls(items[i])[1].fn = "end"
        /\ AdapterCalls(items[i])[1].arg = E2
        /\ Len(items[i].ran) = 2

\* The error an inner middleware ended with (the argument of end or the
\* thrown value, or the error on the response when end got none).
EndError(e) == IF Truthy(e.arg) THEN e.arg ELSE e.res.error

\* An inner middleware ended with an error or threw.
InnerMiddlewareFailed(d) ==
    \E k \in DOMAIN d.log :
        /\ d.log[k].mw[1] = "inner"
        /\ d.log[k].fn \in {"end", "throw"}
        /\ Truthy(EndError(d.log[k]))

\* A return handler of the inner engine failed.
InnerHandlerFailed(d) == \E k \in DOMAIN d.failed : d.failed[k][1] = "inner"

\* C14: a failure inside the nested engine is delivered as the error of the
\* outer response, with no result, through the one callback call and never
\* as a rejection; the error is the normalized failure where no other
\* failure and no handler write competes for the error field.
C14_NestedFailureSurfaces ==
    \A i \in DOMAIN items :
        LET d == items[i]
        IN  /\ d.pc # "rejected"
            /\ (Done(d) /\ (InnerMiddlewareFailed(d) \/ InnerHandlerFailed(d))) =>
                  /\ HasError(d.res)
                  /\ ~HasResult(d.res)
                  /\ Truthy(d.cbErr)
                  /\ d.cbCalls = 1
            /\ (Done(d) /\ InnerMiddlewareFailed(d) /\ d.failed = <<>>
                   /\ ~d.rhWroteError) =>
                  \A k \in DOMAIN d.log :
                      (d.log[k].mw[1] = "inner" /\ d.log[k].fn \in {"end", "throw"})
                          => /\ d.res.error = serializeError(EndError(d.log[k]))
                             /\ d.cbErr = EndError(d.log[k])
            /\ (Done(d) /\ InnerHandlerFailed(d) /\ Len(d.failed) = 1
                   /\ ~d.rhWroteError /\ d.merr \in {Absent, d.cbErr}) =>
                  d.res.error = serializeError(d.cbErr)

C14_Witness ==
    \E i \in DOMAIN items :
        /\ Done(items[i])
        /\ InnerHandlerFailed(items[i])
        /\ ~InnerMiddlewareFailed(items[i])
        /\ AdapterCalls(items[i])[1].fn = "end"
        /\ items[i].res.error = serializeError(E2)
        /\ engine.adapterAt = 2

---------------------------------------------------------------------------
(* Claims about the signals of a middleware.                               *)

\* The middleware of log entry e let the stack go on: it called next, with
\* no error on the response and nothing but a function as the handler.
PassedOn(e) ==
    /\ e.fn = "next"
    /\ ~HasError(e.res)
    /\ Truthy(e.arg) => IsFunction(e.arg)

\* C15: the middleware of a dispatch are invoked in registration order,
\* each at most once, the next one only after the one before it has settled
\* by calling next; while an invoked middleware has not signalled, nothing
\* else of the dispatch runs.
C15_MiddlewareStrictlySerial ==
    \A i \in DOMAIN items :
        LET d == items[i]
        IN  /\ Len(d.invoked) <= engine.n
            /\ Len(d.log) = Len(d.invoked)
            /\ \A k \in DOMAIN d.invoked : d.invoked[k] = <<"outer", k>>
            /\ \A k \in 1..(Len(d.log) - 1) : PassedOn(d.log[k])
            /\ (d.log # <<>> /\ d.log[Len(d.log)].fn = "hang") =>
                  /\ Hung(d)
                  /\ ~ENABLED ItemStep(i)

C15_Witness ==
    \E i \in DOMAIN items :
        /\ Hung(items[i])
        /\ Len(items[i].invoked) = 2
        /\ items[i].log[2].fn = "hang"
        /\ engine.n = 4

\* Middleware j called next while the response carried an error.
NextOnError(d, j) ==
    /\ j \in DOMAIN d.log
    /\ d.log[j].fn = "next"
    /\ HasError(d.log[j].res)

\* C16: a next called while the response carries an error acts as end
\* called with that error: the stack halts at that middleware, the handler
\* passed to that next is not registered, and the delivered response
\* carries the error, normalized (no return handler having replaced it).
C16_NextOnErrorShortCircuits ==
    \A i \in DOMAIN items : \A j \in 1..MaxStack + 1 :
        LET d == items[i]
        IN  NextOnError(d, j) =>
              /\ Len(d.invoked) = j
              /\ d.out.isComplete
              /\ d.out.error = d.log[j].res.error
              /\ \A k \in DOMAIN d.out.returnHandlers :
                    d.out.returnHandlers[k].owner # d.log[j].mw
              /\ Done(d) => HasError(d.res) /\ ~HasResult(d.res)
              /\ (Done(d) /\ ~d.rhWroteError) =>
                    d.res.error = serializeError(d.log[j].res.error)

C16_Witness ==
    \E i \in DOMAIN items :
        /\ Done(items[i])
        /\ NextOnError(items[i], 2)
        /\ items[i].log[2].arg = FnHandler
        /\ engine.n > 2
        /\ items[i].ran = << <<"outer", 1>> >>

\* Middleware j threw synchronously, having called neither next nor end.
ThrewAt(d, j) ==
    /\ j \in DOMAIN d.log
    /\ d.log[j].fn = "throw"

\* C17: a synchronous throw of a middleware is an end with the thrown
\* value: the stack halts at that middleware and the delivered error is
\* the normalized thrown value, whatever the middleware had written to the
\* request or the response before (no return handler having replaced the
\* error afterwards).
C17_ThrowIsImmediateEnd ==
    \A i \in DOMAIN items : \A j \in 1..MaxStack + 1 :
        LET d == items[i]
        IN  ThrewAt(d, j) =>
              /\ Len(d.invoked) = j
              /\ d.out.isComplete
              /\ d.out.error = d.log[j].arg
              /\ d.pc # "hung" \/ d.ran # <<>>
              /\ Done(d) => HasError(d.res) /\ ~HasResult(d.res)
              /\ (Done(d) /\ ~d.rhWroteError) =>
                    d.res.error = serializeError(d.log[j].arg)

C17_Witness ==
    \E i \in DOMAIN items :
        /\ Done(items[i])
        /\ ThrewAt(items[i], 2)
        /\ items[i].log[2].arg = S1
        /\ items[i].log[2].res.error = E1
        /\ engine.n > 2
        /\ items[i].res.error = serializeError(S1)

\* The error next ends the request with when its argument is no function.
HandlerTypeError ==
    SerializableError("JsonRpcEngine: 'next' return handlers must be functions")

\* Middleware j passed a value that is no function to next, on a response
\* without an error.
BadHandlerAt(d, j) ==
    /\ j \in DOMAIN d.log
    /\ d.log[j].fn = "next"
    /\ d.log[j].arg = NonCallable
    /\ ~HasError(d.log[j].res)

\* C18: a non-callable return handler passed to next ends the request: no
\* later middleware is invoked and the delivered error is the engine's
\* error for it, whatever the middleware does after that call.
C18_BadHandlerEndsRequest ==
    \A i \in DOMAIN items : \A j \in 1..MaxStack + 1 :
        LET d == items[i]
        IN  BadHandlerAt(d, j) =>
              /\ Len(d.invoked) = j
              /\ Done(d) =>
                    /\ d.res.error = serializeError(HandlerTypeError)
                    /\ ~HasResult(d.res)

\* The stack was exhausted with no middleware ending the request: every
\* middleware of the engine was invoked and passed on with next, and
\* _processRequest has made its completion check.
Exhausted(d) ==
    /\ d.pc \notin {"start", "loop", "hung", "check"}
    /\ Len(d.log) = engine.n
    /\ \A k \in DOMAIN d.log : PassedOn(d.log[k])

\* The response carried a result when the stack was exhausted.
ResultAtExhaustion(d) == d.log # <<>> /\ HasResult(d.log[Len(d.log)].res)

\* C19: a stack exhausted without an end (the empty stack included) makes
\* the dispatch report a protocol violation: the response is delivered with
\* that error and no result, also when a middleware had set a result
\* before it called next.
C19_ExhaustedStackIsProtocolViolation ==
    \A i \in DOMAIN items :
        LET d == items[i]
        IN  (WellFormed(d) /\ Exhausted(d)) =>
              /\ ~d.out.isComplete
              /\ d.via = "check"
              /\ d.thrown =
                    IF ResultAtExhaustion(d)
                    THEN SerializableError("Nothing ended request")
                    ELSE SerializableError("Response has no error or result for request")
              /\ Done(d) =>
                    /\ d.cbErr = d.thrown
                    /\ d.res.error = serializeError(d.thrown)
                    /\ ~HasResult(d.res)

C19_Witness ==
    \E i \in DOMAIN items :
        /\ Done(items[i])
        /\ Exhausted(items[i])
        /\ engine.n = 2
        /\ items[i].log[1].res.result = R1
        /\ items[i].log[2].arg = FnHandler

---------------------------------------------------------------------------
(* Claims about the normalization of errors.                               *)

\* C20: a dispatch that delivers an error made exactly one call of
\* serializeError for it, nested engines and short-circuits through next
\* included (well-formed requests, no return handler having written the
\* error field itself).
C20_NormalizedExactlyOnce ==
    \A i \in DOMAIN items :
        LET d == items[i]
        IN  (Done(d) /\ WellFormed(d) /\ HasError(d.res) /\ ~d.rhWroteError)
                => d.norms = 1

---------------------------------------------------------------------------
(* Claims about a normal end and about the handler list.                   *)

\* Middleware j set the result R1 on a response without an error, called
\* end with no error and did nothing more.
EndedWithResultAt(d, j) ==
    /\ j \in DOMAIN d.log
    /\ d.log[j].fn = "end"
    /\ ~Truthy(d.log[j].arg)
    /\ d.log[j].res.result = R1
    /\ ~HasError(d.log[j].res)
    /\ d.log[j].then = NoCall

ValidBefore(d, j) ==
    {d.log[k].mw : k \in {l \in 1..(j - 1) : d.log[l].arg = FnHandler}}

\* C22: the handler list of a dispatch holds functions only: a value that
\* is no function is not added by next and not called by the runner, and
\* the handlers earlier middleware registered still run when a request
\* ends on such a value.
C22_OnlyCallableHandlersListed ==
    \A i \in DOMAIN items :
        LET d == items[i]
        IN  /\ AllCallable(d)
            /\ d.cbErr # TypeError
            /\ \A j \in 1..MaxStack + 1 :
                  (BadHandlerAt(d, j) /\ Done(d)) =>
                      ValidBefore(d, j) \subseteq {d.ran[k] : k \in DOMAIN d.ran}

---------------------------------------------------------------------------
(* Claims about the unwinding across nested engines.                       *)

\* The owners of the handlers the inner stack collected, in the order of
\* their registration.
InnerRegistered(d) ==
    [k \in 1..Len(d.inn.returnHandlers) |-> d.inn.returnHandlers[k].owner]

\* The handlers of the inner engine that ran, in the order they ran.
InnerRan(d) == SelectSeq(d.ran, LAMBDA o : o[1] = "inner")

\* The adapter ran, the dispatch passed the completion check of the outer
\* engine and no return handler failed.
UnwoundWithoutFailure(d) ==
    /\ Done(d)
    /\ AdapterSettled(d)
    /\ d.via = "return"
    /\ d.failed = <<>>

\* C23: across the adapter the unwinding is last-in first-out: no handler
\* runs twice, a handler of the inner engine runs after the handlers of the
\* outer middleware behind the adapter and before those of the outer
\* middleware in front of it, and the inner handlers all run, in reverse
\* inner order, whether the inner stack completed the request or passed to
\* the outer next (for a dispatch that passes the completion check and in
\* which no handler fails).
C23_NestedUnwindingIsLifo ==
    \A i \in DOMAIN items :
        LET d == items[i]
        IN  /\ \A a, b \in DOMAIN d.ran : d.ran[a] = d.ran[b] => a = b
            /\ \A a, b \in DOMAIN d.ran :
                  (d.ran[a][1] = "outer" /\ d.ran[b][1] = "inner") =>
                      /\ d.ran[a][2] > engine.adapterAt => a < b
                      /\ d.ran[a][2] < engine.adapterAt => b < a
            /\ \A a, b \in DOMAIN d.ran :
                  (d.ran[a][1] = "inner" /\ d.ran[b][1] = "inner" /\ a < b)
                      => d.ran[a][2] > d.ran[b][2]
            /\ UnwoundWithoutFailure(d) =>
                  InnerRan(d) = Reverse(InnerRegistered(d))

C23_Witness ==
    \E i \in DOMAIN items :
        /\ UnwoundWithoutFailure(items[i])
        /\ engine.adapterAt = 1
        /\ AdapterCalls(items[i])[1].fn = "next"
        /\ items[i].ran = << <<"outer", 2>>, <<"outer", 1>>, <<"inner", 2>>,
                             <<"inner", 1>> >>

=============================================================================
